---- MODULE Spec2Model ----
(***************************************************************************)
(* Command construction and dispatch of the client:                        *)
(*   python/python/pybushka/async_commands/core.py                         *)
(*       ConditionalSet, ExpiryType, ExpirySet, CoreCommands               *)
(*   python/python/glide/async_commands/server_modules/ft.py               *)
(*       create, dropindex, aliasadd, aliasdel, aliasupdate                *)
(*                                                                         *)
(* One calling flow builds an ExpirySet object, may re-set it, and calls   *)
(* the command functions.  Each command function builds its argument list  *)
(* and awaits the dispatch adapter (execute_command), which answers with a *)
(* value or raises.                                                        *)
(***************************************************************************)
EXTENDS Integers, Sequences, FiniteSets, TLC

VARIABLES
    expiry,      \* the caller's ExpirySet object (alive = FALSE: none exists)
    raised,      \* exception the last ExpirySet operation raised ("" = none)
    lastOp,      \* the last operation the caller invoked, with its inputs
    pc,          \* "idle" | "awaiting" (suspended in execute_command) | "done"
    dispatched,  \* requests the adapter received during the current call
    reply,       \* what the adapter answered to the current call
    outcome      \* what the caller observed from the current call

vars == <<expiry, raised, lastOp, pc, dispatched, reply, outcome>>

(***************************************************************************)
(* Python values                                                           *)
(***************************************************************************)

\* Optional[str]: Python's None, or a string.
None == [isNone |-> TRUE, s |-> ""]
Some(s) == [isNone |-> FALSE, s |-> s]

\* The state of an awaited call: not resolved, resolved with a value, or
\* resolved with an exception.
NoAnswer == [kind |-> "none", value |-> None]
Returned(v) == [kind |-> "returned", value |-> v]
Raised(e) == [kind |-> "raised", value |-> e]

\* A Python value, tagged with its type.  n is the integer of an int, the
\* total microseconds of a timedelta, and the microseconds since the Unix
\* epoch of a (timezone-aware) datetime.
PyNone == [type |-> "NoneType", n |-> 0]
PyInt(i) == [type |-> "int", n |-> i]
PyTimedelta(us) == [type |-> "timedelta", n |-> us]
PyDatetime(us) == [type |-> "datetime", n |-> us]
PyStr == [type |-> "str", n |-> 0]

\* isinstance(value, types) for a tuple of types.
isinstance(value, types) == value.type \in types

\* Truth value of a Python object.  An Enum member is true whatever its value
\* (Enum defines no __bool__), and so is any object without __bool__/__len__.
bool(x) ==
    CASE x.type = "NoneType" -> FALSE
      [] x.type = "int" -> x.n # 0
      [] OTHER -> TRUE

Digits == <<"0", "1", "2", "3", "4", "5", "6", "7", "8", "9">>

RECURSIVE NatStr(_)
NatStr(n) ==
    IF n < 10 THEN Digits[n + 1]
    ELSE NatStr(n \div 10) \o Digits[(n % 10) + 1]

\* str(int): the decimal string.
str(n) == IF n < 0 THEN "-" \o NatStr(-n) ELSE NatStr(n)

(***************************************************************************)
(* IEEE-754 binary64 arithmetic, as far as timedelta.total_seconds(),      *)
(* datetime.timestamp(), float * int and int(float) use it.  A float is a  *)
(* sign, and for a nonzero value the 53 mantissa bits (most significant    *)
(* first, leading bit 1) with the exponent e of the leading bit.           *)
(***************************************************************************)

MantissaBits == 53

FloatZero == [zero |-> TRUE, sign |-> 1, e |-> 0, m |-> <<>>]

Abs(n) == IF n < 0 THEN -n ELSE n
Sign(n) == IF n < 0 THEN -1 ELSE 1

Min(a, b) == IF a <= b THEN a ELSE b

\* Binary digits of n > 0, most significant first (none for 0).
RECURSIVE Bin(_)
Bin(n) == IF n = 0 THEN <<>> ELSE Append(Bin(n \div 2), n % 2)

\* The w low binary digits of n, most significant first.
BinW(n, w) == [i \in 1..w |-> (n \div 2^(w - i)) % 2]

\* The integer a bit string (at most 30 bits) denotes.
RECURSIVE BitsToInt(_)
BitsToInt(b) ==
    IF Len(b) = 0 THEN 0
    ELSE IF Len(b) = 1 THEN b[1]
    ELSE LET h == Len(b) \div 2
         IN BitsToInt(SubSeq(b, 1, h)) * 2^(Len(b) - h)
                + BitsToInt(SubSeq(b, h + 1, Len(b)))

\* The next k binary digits of r / d (0 <= r < d), and the remainder left.
RECURSIVE FracBits(_, _, _)
FracBits(r, d, k) ==
    IF k = 0 THEN [bits |-> <<>>, rem |-> r]
    ELSE IF k = 1
         THEN LET b == IF 2 * r >= d THEN 1 ELSE 0
              IN [bits |-> <<b>>, rem |-> 2 * r - b * d]
    ELSE LET h == k \div 2
             hi == FracBits(r, d, h)
             lo == FracBits(hi.rem, d, k - h)
         IN [bits |-> hi.bits \o lo.bits, rem |-> lo.rem]

\* r / d (0 < r < d) shifted left until its first binary digit is 1.
RECURSIVE Lead(_, _, _)
Lead(r, d, z) == IF 2 * r >= d THEN [r |-> r, z |-> z] ELSE Lead(2 * r, d, z + 1)

\* b + 1 on a bit string; one bit longer when every bit was 1.
Inc(b) ==
    LET zeros == {i \in 1..Len(b) : b[i] = 0}
    IN IF zeros = {} THEN <<1>> \o [i \in 1..Len(b) |-> 0]
       ELSE LET p == CHOOSE i \in zeros : \A j \in zeros : j <= i
            IN [i \in 1..Len(b) |-> IF i < p THEN b[i] ELSE IF i = p THEN 1 ELSE 0]

\* Round-to-nearest, ties-to-even, of the positive value whose binary digits
\* are bits (leading bit 1, of exponent e) followed by a nonzero tail iff sticky.
RoundNearestEven(sign, bits, sticky, e) ==
    LET n == Len(bits)
        kept == IF n >= MantissaBits THEN SubSeq(bits, 1, MantissaBits)
                ELSE bits \o [i \in 1..(MantissaBits - n) |-> 0]
        guard == IF n > MantissaBits THEN bits[MantissaBits + 1] ELSE 0
        tail == sticky \/ \E i \in (MantissaBits + 2)..n : bits[i] = 1
        up == guard = 1 /\ (tail \/ kept[MantissaBits] = 1)
        inc == Inc(kept)
    IN IF ~up THEN [zero |-> FALSE, sign |-> sign, e |-> e, m |-> kept]
       ELSE IF Len(inc) > MantissaBits
            THEN [zero |-> FALSE, sign |-> sign, e |-> e + 1,
                  m |-> SubSeq(inc, 1, MantissaBits)]
       ELSE [zero |-> FALSE, sign |-> sign, e |-> e, m |-> inc]

\* int / int (true division): the correctly rounded quotient.
TrueDiv(n, d) ==
    LET a == Abs(n)
        q == a \div d
        r == a % d
    IN IF a = 0 THEN FloatZero
       ELSE IF q > 0
            THEN LET ib == Bin(q)
                     f == FracBits(r, d, MantissaBits + 1 - Len(ib))
                 IN RoundNearestEven(Sign(n), ib \o f.bits, f.rem # 0, Len(ib) - 1)
       ELSE LET l == Lead(r, d, 0)
                f == FracBits(l.r, d, MantissaBits + 1)
            IN RoundNearestEven(Sign(n), f.bits, f.rem # 0, -(l.z + 1))

\* bits * k + c on a bit string, 20 bits at a time from the low end (k < 2^10,
\* so that the product of a chunk fits a 32-bit integer).
RECURSIVE MulBits(_, _, _)
MulBits(b, k, c) ==
    IF Len(b) = 0 THEN Bin(c)
    ELSE LET w == Min(Len(b), 20)
             t == BitsToInt(SubSeq(b, Len(b) - w + 1, Len(b))) * k + c
         IN MulBits(SubSeq(b, 1, Len(b) - w), k, t \div 2^w) \o BinW(t % 2^w, w)

\* float * int for a small positive int k (exactly representable).
FloatMulInt(x, k) ==
    IF x.zero THEN FloatZero
    ELSE LET p == MulBits(x.m, k, 0)
         IN RoundNearestEven(x.sign, p, FALSE, x.e - (MantissaBits - 1) + Len(p) - 1)

\* int(float): truncation toward zero.
FloatToInt(x) ==
    IF x.zero \/ x.e < 0 THEN 0
    ELSE x.sign * BitsToInt(SubSeq(x.m, 1, x.e + 1))

\* timedelta.total_seconds(): total microseconds / 10**6.
total_seconds(td) == TrueDiv(td.n, 1000000)

\* datetime.timestamp() of an aware datetime: (self - epoch).total_seconds().
timestamp(dt) == TrueDiv(dt.n, 1000000)

(***************************************************************************)
(* core.py: ConditionalSet, ExpiryType, ExpirySet                          *)
(***************************************************************************)

\* class ConditionalSet(Enum)
ONLY_IF_EXISTS == [type |-> "ConditionalSet", n |-> 0, name |-> "ONLY_IF_EXISTS"]
ONLY_IF_DOES_NOT_EXIST ==
    [type |-> "ConditionalSet", n |-> 1, name |-> "ONLY_IF_DOES_NOT_EXIST"]

\* ExpiryType with UNIX_SEC declared as Union[int, timedelta].
ExpiryType_unix_sec_timedelta ==
    [SEC          |-> {"int", "timedelta"},
     MILLSEC      |-> {"int", "timedelta"},
     UNIX_SEC     |-> {"int", "timedelta"},
     UNIX_MILLSEC |-> {"int", "datetime"},
     KEEP_TTL     |-> {"NoneType"}]

\* class ExpiryType(Enum): get_args(expiry_type.value[1]) of each member.
ExpiryType ==
    [SEC          |-> {"int", "timedelta"},
     MILLSEC      |-> {"int", "timedelta"},
     UNIX_SEC     |-> {"int", "datetime"},
     UNIX_MILLSEC |-> {"int", "datetime"},
     KEEP_TTL     |-> {"NoneType"}]

\* Lines 65-82 of set_expiry_type_and_value: the keyword of each member.
cmd_arg(expiry_type) ==
    CASE expiry_type = "SEC" -> "EX"
      [] expiry_type = "MILLSEC" -> "PX"
      [] expiry_type = "UNIX_SEC" -> "EXAT"
      [] expiry_type = "UNIX_MILLSEC" -> "PXAT"
      [] expiry_type = "KEEP_TTL" -> "KEEPTTL"

\* Lines 65-82 of set_expiry_type_and_value: the local `value` after the
\* conversions of a timedelta or datetime.
converted(expiry_type, value) ==
    CASE expiry_type = "SEC" /\ isinstance(value, {"timedelta"}) ->
            PyInt(FloatToInt(total_seconds(value)))
      [] expiry_type = "MILLSEC" /\ isinstance(value, {"timedelta"}) ->
            PyInt(FloatToInt(FloatMulInt(total_seconds(value), 1000)))
      [] expiry_type = "UNIX_SEC" /\ isinstance(value, {"datetime"}) ->
            PyInt(FloatToInt(timestamp(value)))
      [] expiry_type = "UNIX_MILLSEC" /\ isinstance(value, {"datetime"}) ->
            PyInt(FloatToInt(FloatMulInt(timestamp(value), 1000)))
      [] OTHER -> value

ExpiryTypes == DOMAIN ExpiryType

\* The values callers pass.  Microseconds: 0, under a millisecond, 0.5 s,
\* 1.001 s, 1.5 s, 5 s, -1.5 s.
Microseconds == {0, 999, 500000, 1001000, 1500000, 5000000, -1500000}

ExpiryValues ==
    {PyNone, PyStr}
    \cup {PyInt(i) : i \in {-1, 0, 5, 5000}}
    \cup {PyTimedelta(us) : us \in Microseconds}
    \cup {PyDatetime(us) : us \in Microseconds}

\* converted, tabulated over the callers' values (evaluated once).
converted_table == [t \in ExpiryTypes, v \in ExpiryValues |-> converted(t, v)]

\* set_expiry_type_and_value with `self.expiry_type = expiry_type` moved above
\* the type check.
set_expiry_assign_first(self, expiry_type, value) ==
    IF ~isinstance(value, ExpiryType[expiry_type])
    THEN [raised |-> "ValueError",
          self |-> IF self = PyNone THEN self
                   ELSE [self EXCEPT !.expiry_type = expiry_type]]
    ELSE LET v == converted_table[expiry_type, value]
         IN [raised |-> "",
             self |-> [type |-> "ExpirySet",
                       expiry_type |-> expiry_type,
                       cmd_arg |-> cmd_arg(expiry_type),
                       value |-> IF bool(v) THEN Some(str(v.n)) ELSE None]]

\* ExpirySet.set_expiry_type_and_value(self, expiry_type, value): the
\* exception raised ("" when none) and the object afterwards.
set_expiry_type_and_value(self, expiry_type, value) ==
    IF ~isinstance(value, ExpiryType[expiry_type])
    THEN [raised |-> "ValueError", self |-> self]
    ELSE LET v == converted_table[expiry_type, value]
         IN [raised |-> "",
             self |-> [type |-> "ExpirySet",
                       expiry_type |-> expiry_type,
                       cmd_arg |-> cmd_arg(expiry_type),
                       value |-> IF bool(v) THEN Some(str(v.n)) ELSE None]]

\* ExpirySet.get_cmd_args(self)
get_cmd_args(self) ==
    IF self.value.isNone THEN <<self.cmd_arg>> ELSE <<self.cmd_arg, self.value.s>>

(***************************************************************************)
(* The dispatch adapter and core.py: CoreCommands                          *)
(***************************************************************************)

\* The request execute_command(request_type, args) hands to the adapter.
execute_command(request_type, args) == [request_type |-> request_type, args |-> args]

\* set with the truth value of conditional_set taken from the member's value
\* (ONLY_IF_EXISTS = 0).
set_cond_by_value(key, value, conditional_set, expiry_arg, return_old_value) ==
    LET a1 == <<key, value>>
        a2 == IF conditional_set.n # 0
              THEN (IF conditional_set = ONLY_IF_EXISTS THEN <<"XX">> ELSE <<>>)
                   \o (IF conditional_set = ONLY_IF_DOES_NOT_EXIST
                       THEN <<"NX">> ELSE <<>>)
              ELSE <<>>
        a3 == IF return_old_value THEN <<"GET">> ELSE <<>>
        a4 == IF expiry_arg # PyNone THEN get_cmd_args(expiry_arg) ELSE <<>>
    IN execute_command("SetString", a1 \o a2 \o a3 \o a4)

\* CoreCommands.set: the request it dispatches.
set(key, value, conditional_set, expiry_arg, return_old_value) ==
    LET a1 == <<key, value>>
        a2 == IF bool(conditional_set)
              THEN (IF conditional_set = ONLY_IF_EXISTS THEN <<"XX">> ELSE <<>>)
                   \o (IF conditional_set = ONLY_IF_DOES_NOT_EXIST
                       THEN <<"NX">> ELSE <<>>)
              ELSE <<>>
        a3 == IF return_old_value THEN <<"GET">> ELSE <<>>
        a4 == IF expiry_arg # PyNone THEN get_cmd_args(expiry_arg) ELSE <<>>
    IN execute_command("SetString", a1 \o a2 \o a3 \o a4)

\* CoreCommands.get: the request it dispatches.
get(key) == execute_command("GetString", <<key>>)

\* custom_command dropping empty tokens.
custom_command_nonempty(command_args) ==
    execute_command("CustomCommand", SelectSeq(command_args, LAMBDA t : t # ""))

\* CoreCommands.custom_command: the request it dispatches.
custom_command(command_args) == execute_command("CustomCommand", command_args)

\* `return (await ...) or ""`: no value becomes the empty string.
core_return_or_empty(result) == IF result.isNone THEN Some("") ELSE result

\* `return await self.execute_command(...)`: what set, get and custom_command
\* return for the adapter's result.
core_return(result) == result

(***************************************************************************)
(* ft.py                                                                   *)
(***************************************************************************)

\* ft_constants.CommandNames and FtCreateKeywords
FT_CREATE == "FT.CREATE"
FT_DROPINDEX == "FT.DROPINDEX"
FT_ALIASADD == "FT.ALIASADD"
FT_ALIASDEL == "FT.ALIASDEL"
FT_ALIASUPDATE == "FT.ALIASUPDATE"
SCHEMA == "SCHEMA"

\* Field.toArgs(): fieldName fieldType.
Field_toArgs(field) == <<field.name, field.kind>>

\* FtCreateOptions.toArgs(): [ON HASH|JSON] [PREFIX count prefix...].
FtCreateOptions_toArgs(options) ==
    (IF options.dataType # "" THEN <<"ON", options.dataType>> ELSE <<>>)
    \o (IF Len(options.prefixes) > 0
        THEN <<"PREFIX", str(Len(options.prefixes))>> \o options.prefixes
        ELSE <<>>)

\* The loop `for field in schema: args.extend(field.toArgs())`.
RECURSIVE extend_fields(_, _)
extend_fields(args, schema) ==
    IF Len(schema) = 0 THEN args
    ELSE extend_fields(args \o Field_toArgs(Head(schema)), Tail(schema))

\* typing.cast(typ, val): val, unchanged and unchecked.
cast(typ, val) == val

\* create appending SCHEMA whether or not the schema has fields.
create_schema_always(indexName, schema, options) ==
    LET a1 == <<FT_CREATE, indexName>>
        a2 == IF bool(options) THEN a1 \o FtCreateOptions_toArgs(options) ELSE a1
    IN custom_command(extend_fields(Append(a2, SCHEMA), schema))

\* ft.create: the request it dispatches (through client.custom_command).
create(indexName, schema, options) ==
    LET a1 == <<FT_CREATE, indexName>>
        a2 == IF bool(options) THEN a1 \o FtCreateOptions_toArgs(options) ELSE a1
        a3 == IF Len(schema) # 0 THEN extend_fields(Append(a2, SCHEMA), schema)
              ELSE a2
    IN custom_command(a3)

\* ft.dropindex
dropindex(indexName) == custom_command(<<FT_DROPINDEX, indexName>>)

\* aliasadd with its two arguments in the other order.
aliasadd_swapped(alias, indexName) ==
    custom_command(<<FT_ALIASADD, indexName, alias>>)

\* ft.aliasadd
aliasadd(alias, indexName) == custom_command(<<FT_ALIASADD, alias, indexName>>)

\* ft.aliasdel
aliasdel(alias) == custom_command(<<FT_ALIASDEL, alias>>)

\* ft.aliasupdate
aliasupdate(alias, indexName) == custom_command(<<FT_ALIASUPDATE, alias, indexName>>)

\* A function answering "OK" whatever the adapter returned.
ft_return_ok(result) == Some("OK")

\* `return cast(TOK, await client.custom_command(args))`
ft_return(result) == cast("TOK", core_return(result))

(***************************************************************************)
(* Inputs                                                                  *)
(***************************************************************************)

MaxTokens == 2
MaxSchema == 2

Keys == {"k", "foo"}
Strings == {"v", ""}
ConditionalSets == {PyNone, ONLY_IF_EXISTS, ONLY_IF_DOES_NOT_EXIST}

Tokens == {"CLIENT", "LIST", ""}
SeqsUpTo(S, n) == UNION {[1..k -> S] : k \in 0..n}

IndexNames == {"idx"}
Aliases == {"myalias"}
Fields == {[name |-> "title", kind |-> "TEXT"],
           [name |-> "tags", kind |-> "TAG"],
           [name |-> "price", kind |-> "NUMERIC"]}
FtCreateOptionsSet ==
    {PyNone,
     [type |-> "FtCreateOptions", dataType |-> "", prefixes |-> <<>>],
     [type |-> "FtCreateOptions", dataType |-> "HASH", prefixes |-> <<"blog:post:">>],
     [type |-> "FtCreateOptions", dataType |-> "JSON", prefixes |-> <<>>]}

\* What the adapter may answer: no value or a string; or it fails.
OK == Some("OK")
Results == {None, Some(""), OK, Some("bar")}
AdapterError == Some("AdapterError")

FtOps == {"create", "dropindex", "aliasadd", "aliasdel", "aliasupdate"}

(***************************************************************************)
(* State machine                                                           *)
(***************************************************************************)

Init ==
    /\ expiry = PyNone
    /\ raised = ""
    /\ lastOp = [op |-> "none"]
    /\ pc = "idle"
    /\ dispatched = <<>>
    /\ reply = NoAnswer
    /\ outcome = NoAnswer

\* An ExpirySet operation: nothing is dispatched.
NoCall ==
    /\ pc' = "idle"
    /\ dispatched' = <<>>
    /\ reply' = NoAnswer
    /\ outcome' = NoAnswer

\* ExpirySet(expiry_type, value): __init__ calls set_expiry_type_and_value;
\* when it raises, no object comes to exist.
Construct(expiry_type, value) ==
    /\ pc = "idle"
    /\ expiry = PyNone
    /\ LET r == set_expiry_type_and_value(PyNone, expiry_type, value)
       IN /\ raised' = r.raised
          /\ expiry' = r.self
    /\ lastOp' = [op |-> "__init__", expiry_type |-> expiry_type, value |-> value]
    /\ NoCall

\* expiry.set_expiry_type_and_value(expiry_type, value) on the existing object.
Reset(expiry_type, value) ==
    /\ pc = "idle"
    /\ expiry # PyNone
    /\ LET r == set_expiry_type_and_value(expiry, expiry_type, value)
       IN /\ raised' = r.raised
          /\ expiry' = r.self
    /\ lastOp' = [op |-> "set_expiry_type_and_value",
                  expiry_type |-> expiry_type, value |-> value]
    /\ NoCall

\* expiry.get_cmd_args()
GetCmdArgs ==
    /\ pc = "idle"
    /\ expiry # PyNone
    /\ lastOp' = [op |-> "get_cmd_args", result |-> get_cmd_args(expiry)]
    /\ raised' = ""
    /\ UNCHANGED expiry
    /\ NoCall

\* A command function has run up to its await: the request is with the adapter.
Awaiting ==
    /\ pc = "idle"
    /\ pc' = "awaiting"
    /\ reply' = NoAnswer
    /\ outcome' = NoAnswer
    /\ raised' = ""
    /\ UNCHANGED expiry

Set(key, value, conditional_set, expiry_arg, return_old_value) ==
    /\ lastOp' = [op |-> "set", key |-> key, value |-> value,
                  conditional_set |-> conditional_set, expiry |-> expiry_arg,
                  return_old_value |-> return_old_value]
    /\ dispatched' = <<set(key, value, conditional_set, expiry_arg, return_old_value)>>
    /\ Awaiting

Get(key) ==
    /\ lastOp' = [op |-> "get", key |-> key]
    /\ dispatched' = <<get(key)>>
    /\ Awaiting

CustomCommand(command_args) ==
    /\ lastOp' = [op |-> "custom_command", command_args |-> command_args]
    /\ dispatched' = <<custom_command(command_args)>>
    /\ Awaiting

Create(indexName, schema, options) ==
    /\ lastOp' = [op |-> "create", indexName |-> indexName, schema |-> schema,
                  options |-> options]
    /\ dispatched' = <<create(indexName, schema, options)>>
    /\ Awaiting

DropIndex(indexName) ==
    /\ lastOp' = [op |-> "dropindex", indexName |-> indexName]
    /\ dispatched' = <<dropindex(indexName)>>
    /\ Awaiting

AliasAdd(alias, indexName) ==
    /\ lastOp' = [op |-> "aliasadd", alias |-> alias, indexName |-> indexName]
    /\ dispatched' = <<aliasadd(alias, indexName)>>
    /\ Awaiting

AliasDel(alias) ==
    /\ lastOp' = [op |-> "aliasdel", alias |-> alias]
    /\ dispatched' = <<aliasdel(alias)>>
    /\ Awaiting

AliasUpdate(alias, indexName) ==
    /\ lastOp' = [op |-> "aliasupdate", alias |-> alias, indexName |-> indexName]
    /\ dispatched' = <<aliasupdate(alias, indexName)>>
    /\ Awaiting

\* The adapter resolves the awaited call with a result; the function returns.
AdapterReturn(result) ==
    /\ pc = "awaiting"
    /\ reply' = Returned(result)
    /\ outcome' = Returned(IF lastOp.op \in FtOps THEN ft_return(result)
                           ELSE core_return(result))
    /\ pc' = "idle"
    /\ UNCHANGED <<expiry, raised, lastOp, dispatched>>

\* The adapter fails; the exception propagates out of the awaiting function.
AdapterRaise ==
    /\ pc = "awaiting"
    /\ reply' = Raised(AdapterError)
    /\ outcome' = Raised(AdapterError)
    /\ pc' = "idle"
    /\ UNCHANGED <<expiry, raised, lastOp, dispatched>>

Next ==
    \/ \E t \in ExpiryTypes, v \in ExpiryValues : Construct(t, v)
    \/ \E t \in ExpiryTypes, v \in ExpiryValues : Reset(t, v)
    \/ GetCmdArgs
    \/ \E k \in Keys, v \in Strings, c \in ConditionalSets,
          e \in {PyNone, expiry}, g \in BOOLEAN : Set(k, v, c, e, g)
    \/ \E k \in Keys : Get(k)
    \/ \E a \in SeqsUpTo(Tokens, MaxTokens) : CustomCommand(a)
    \/ \E i \in IndexNames, s \in SeqsUpTo(Fields, MaxSchema),
          o \in FtCreateOptionsSet : Create(i, s, o)
    \/ \E i \in IndexNames : DropIndex(i)
    \/ \E a \in Aliases, i \in IndexNames : AliasAdd(a, i)
    \/ \E a \in Aliases : AliasDel(a)
    \/ \E a \in Aliases, i \in IndexNames : AliasUpdate(a, i)
    \/ \E r \in Results : AdapterReturn(r)
    \/ AdapterRaise

Spec == Init /\ [][Next]_vars

(***************************************************************************)
(* Properties                                                              *)
(***************************************************************************)

Request(request_type, args) == [request_type |-> request_type, args |-> args]
IsExpiryOp == lastOp.op \in {"__init__", "set_expiry_type_and_value"}
Answered == reply.kind # "none"

\* The documented keyword of each expiry mode.
Keyword ==
    [SEC |-> "EX", MILLSEC |-> "PX", UNIX_SEC |-> "EXAT",
     UNIX_MILLSEC |-> "PXAT", KEEP_TTL |-> "KEEPTTL"]

\* The documented token order of SET for the inputs of call o.
SetTokens(o) ==
    <<o.key, o.value>>
    \o (IF o.conditional_set = PyNone THEN <<>>
        ELSE IF o.conditional_set.name = "ONLY_IF_EXISTS" THEN <<"XX">>
        ELSE <<"NX">>)
    \o (IF o.return_old_value THEN <<"GET">> ELSE <<>>)
    \o (IF o.expiry = PyNone THEN <<>> ELSE get_cmd_args(o.expiry))

\* C1: set dispatches exactly one SetString request whose tokens are key,
\* value, then XX or NX iff a conditional mode is given, then GET iff
\* return_old_value, then the expiry's tokens iff an expiry is given; with
\* k, v, ONLY_IF_EXISTS, ExpirySet(SEC, 5) and return_old_value the tokens are
\* k v XX GET EX 5.
C1_SetTokenOrder ==
    lastOp.op = "set" =>
        /\ dispatched = <<Request("SetString", SetTokens(lastOp))>>
        /\ (/\ lastOp.conditional_set = ONLY_IF_EXISTS
            /\ lastOp.return_old_value
            /\ lastOp.expiry # PyNone
            /\ lastOp.expiry.expiry_type = "SEC"
            /\ lastOp.expiry.value = Some("5"))
           => dispatched[1].args = <<lastOp.key, lastOp.value, "XX", "GET", "EX", "5">>

C1_Witness ==
    /\ lastOp.op = "set"
    /\ dispatched = <<Request("SetString", <<"k", "v", "XX", "GET", "EX", "5">>)>>

\* C2: after a successful construction with mode m and value v, get_cmd_args
\* gives [keyword(m)] exactly when v is None, and otherwise
\* [keyword(m), decimal string of the converted value], zero included.
C2_ExpiryTokens ==
    (IsExpiryOp /\ raised = "") =>
        get_cmd_args(expiry) =
            IF lastOp.value = PyNone THEN <<Keyword[lastOp.expiry_type]>>
            ELSE <<Keyword[lastOp.expiry_type],
                   str(converted_table[lastOp.expiry_type, lastOp.value].n)>>

\* The types each mode is documented to accept.
Accepts(m, type) ==
    CASE m \in {"SEC", "MILLSEC"} -> type \in {"int", "timedelta"}
      [] m \in {"UNIX_SEC", "UNIX_MILLSEC"} -> type \in {"int", "datetime"}
      [] m = "KEEP_TTL" -> type = "NoneType"

\* C3: construction with a value whose type the mode does not accept raises
\* ValueError and leaves no object (None for every mode but KEEP_TTL, any
\* non-None value for KEEP_TTL); with an accepted type it succeeds.
C3_TypeValidation ==
    IsExpiryOp =>
        IF Accepts(lastOp.expiry_type, lastOp.value.type)
        THEN /\ raised = ""
             /\ expiry # PyNone
             /\ expiry.expiry_type = lastOp.expiry_type
        ELSE /\ raised = "ValueError"
             /\ dispatched = <<>>
             /\ lastOp.op = "__init__" => expiry = PyNone

C3_Witness ==
    /\ lastOp.op = "__init__"
    /\ lastOp.expiry_type = "KEEP_TTL"
    /\ lastOp.value = PyInt(5)
    /\ raised = "ValueError"
    /\ expiry = PyNone

RECURSIVE FieldTokens(_)
FieldTokens(schema) ==
    IF schema = <<>> THEN <<>>
    ELSE Field_toArgs(schema[1]) \o FieldTokens(Tail(schema))

Range(f) == {f[i] : i \in DOMAIN f}

\* C4: create dispatches [FT.CREATE, indexName] ++ the options' tokens (iff
\* options are given) ++ the schema block, which is empty for an empty schema
\* and otherwise SCHEMA followed by every field's tokens in declaration order.
C4_CreateTokens ==
    lastOp.op = "create" =>
        LET opts == IF lastOp.options = PyNone THEN <<>>
                    ELSE FtCreateOptions_toArgs(lastOp.options)
            block == IF lastOp.schema = <<>> THEN <<>>
                     ELSE <<"SCHEMA">> \o FieldTokens(lastOp.schema)
            args == dispatched[1].args
        IN /\ dispatched =
                <<Request("CustomCommand",
                          <<"FT.CREATE", lastOp.indexName>> \o opts \o block)>>
           /\ lastOp.schema = <<>> => "SCHEMA" \notin Range(args)
           /\ lastOp.schema # <<>> => args[Len(args)] # "SCHEMA"
           /\ lastOp.schema = <<[name |-> "title", kind |-> "TEXT"]>> =>
                SubSeq(args, Len(args) - 2, Len(args)) = <<"SCHEMA", "title", "TEXT">>

C4_Witness ==
    /\ lastOp.op = "create"
    /\ dispatched =
         <<Request("CustomCommand",
                   <<"FT.CREATE", "idx", "ON", "HASH", "PREFIX", "1", "blog:post:",
                     "SCHEMA", "title", "TEXT", "price", "NUMERIC">>)>>

C6_NeverChanges == [][expiry # PyNone => expiry' = expiry]_vars

\* C6 (amended): an existing ExpirySet changes only by a successful
\* set_expiry_type_and_value; a failed one, get_cmd_args, and every command
\* function, set included, leave it as it was.
C6_ChangesOnlyBySetter ==
    [][(expiry # PyNone
        /\ ~(lastOp'.op = "set_expiry_type_and_value" /\ raised' = ""))
       => expiry' = expiry]_vars

C6_Witness ==
    /\ lastOp.op = "set_expiry_type_and_value"
    /\ raised = "ValueError"
    /\ expiry # PyNone
    /\ get_cmd_args(expiry) = <<"EX", "5">>

\* Division truncating toward zero.
TruncDiv(n, d) == Sign(n) * (Abs(n) \div d)

\* The whole units in value v under mode m.
WholeUnits(m, v) ==
    IF v.type = "int" THEN v.n
    ELSE IF m \in {"SEC", "UNIX_SEC"} THEN TruncDiv(v.n, 1000000)
    ELSE TruncDiv(v.n, 1000)

\* C7: the value an expiry carries is the whole number of seconds or
\* milliseconds of the duration or time point it was built from (the
\* fraction discarded), and the integer itself for an integer.
C7_Truncates ==
    (IsExpiryOp /\ raised = "" /\ ~expiry.value.isNone) =>
        expiry.value = Some(str(WholeUnits(lastOp.expiry_type, lastOp.value)))

\* C8: custom_command dispatches exactly one CustomCommand request with the
\* caller's tokens as given, empty and ill-formed sequences included, and
\* returns the adapter's result unchanged.
C8_CustomPassThrough ==
    lastOp.op = "custom_command" =>
        /\ dispatched = <<Request("CustomCommand", lastOp.command_args)>>
        /\ Answered => outcome = reply

C8_Witness ==
    /\ lastOp.op = "custom_command"
    /\ lastOp.command_args = <<"", "LIST">>
    /\ dispatched = <<Request("CustomCommand", <<"", "LIST">>)>>
    /\ outcome = Returned(Some("bar"))

\* C9: dropindex, aliasadd, aliasdel and aliasupdate each dispatch exactly one
\* request: [FT.DROPINDEX, indexName], [FT.ALIASADD, alias, indexName],
\* [FT.ALIASDEL, alias], [FT.ALIASUPDATE, alias, indexName].
C9_FixedShapes ==
    /\ lastOp.op = "dropindex" =>
         dispatched = <<Request("CustomCommand", <<"FT.DROPINDEX", lastOp.indexName>>)>>
    /\ lastOp.op = "aliasadd" =>
         dispatched = <<Request("CustomCommand",
                                <<"FT.ALIASADD", lastOp.alias, lastOp.indexName>>)>>
    /\ lastOp.op = "aliasdel" =>
         dispatched = <<Request("CustomCommand", <<"FT.ALIASDEL", lastOp.alias>>)>>
    /\ lastOp.op = "aliasupdate" =>
         dispatched = <<Request("CustomCommand",
                                <<"FT.ALIASUPDATE", lastOp.alias, lastOp.indexName>>)>>

C9_Witness ==
    /\ lastOp.op = "aliasupdate"
    /\ dispatched = <<Request("CustomCommand", <<"FT.ALIASUPDATE", "myalias", "idx">>)>>

\* C10: get dispatches exactly one GetString request with the tokens [key] and
\* returns the adapter's result unchanged: no value stays no value, distinct
\* from the empty string, and a string, empty or not, stays that string.
C10_GetPassThrough ==
    lastOp.op = "get" =>
        /\ dispatched = <<Request("GetString", <<lastOp.key>>)>>
        /\ reply.kind = "returned" => outcome = Returned(reply.value)
        /\ reply = Returned(None) => outcome # Returned(Some(""))
        /\ reply = Returned(Some("")) => outcome # Returned(None)

C10_Witness ==
    /\ lastOp.op = "get"
    /\ reply = Returned(None)
    /\ outcome = Returned(None)

====
